---- MODULE Spec2Model ----
(***************************************************************************)
(* Model of terraform-provider-tss: the secret resource (Create, Read,     *)
(* Update, Delete, planning of fields[i].itemvalue), the field reconciler  *)
(* reorderFieldsToMatchPlan, and the ephemeral tss_secrets lease (Open,    *)
(* Renew, Close).                                                          *)
(*                                                                         *)
(* The specifications of the module:                                       *)
(*   Spec           the resource lifecycle against one remote secret       *)
(*   SpecFaults     the lifecycle against a store whose calls may fail     *)
(*   SpecImport     SpecFaults with adoption of a record by ImportState    *)
(*   SpecReconcile  reorderFieldsToMatchPlan on drawn plan/remote lists    *)
(*   SpecLease      the ephemeral lease lifecycle                          *)
(*   SpecBinder     the template-field lookups on drawn templates          *)
(*   SpecRenew      Renew on any private data                              *)
(***************************************************************************)
EXTENDS Integers, Sequences, FiniteSets, TLC

VARIABLES
    state,      \* the durable record (Terraform state), NoState before Create
    remote,     \* the secret held by the remote store, NoSecret when absent
    nextID,     \* the id the remote store assigns to the next created secret
    op,         \* the last resource operation: kind, declaration, plan, prior
    calls,      \* the remote calls the last resource operation issued, in order
    diags,      \* the diagnostics of the last resource operation
    rc,         \* run of a pure function on drawn inputs: inputs and outputs
    store,      \* ephemeral path: what the remote store answers per secret id
    lease       \* ephemeral path: phase, result, private data, diagnostics

vars == <<state, remote, nextID, op, calls, diags, rc, store, lease>>

resourceVars == <<state, remote, nextID, op, calls, diags>>

----------------------------------------------------------------------------
(* Sequence helpers.                                                       *)

Range(s) == {s[i] : i \in 1..Len(s)}

\* index of the first element of s satisfying P, 0 when there is none
FirstIndex(P(_), s) ==
    IF \E i \in 1..Len(s) : P(s[i])
    THEN CHOOSE i \in 1..Len(s) : P(s[i]) /\ \A j \in 1..(i - 1) : ~P(s[j])
    ELSE 0

\* all orderings of the elements of sequence s
Perms(s) ==
    {p \in [1..Len(s) -> 1..Len(s)] : \A i, j \in 1..Len(s) : p[i] = p[j] => i = j}

Permute(s, p) == [i \in 1..Len(s) |-> s[p[i]]]

----------------------------------------------------------------------------
(* Strings.  Field names are drawn from a fixed alphabet of names; ToLower *)
(* is strings.ToLower restricted to it, EqualFold is strings.EqualFold.    *)

ToLower(s) ==
    CASE s = "Password"    -> "password"
      [] s = "PASSWORD"    -> "password"
      [] s = "Private Key" -> "private key"
      [] s = "Notes"       -> "notes"
      [] s = "Bogus"       -> "bogus"
      [] OTHER             -> s

EqualFold(a, b) == ToLower(a) = ToLower(b)

\* strings.Contains(strings.ToLower(name), "key")
ContainsKey(lowered) == lowered \in {"private key", "private-key"}

\* strings.Contains(strings.ToLower(name), "passphrase")
ContainsPassphrase(lowered) == lowered \in {"passphrase"}

\* strconv.Atoi on the identifier strings in use: the strings it parses,
\* and its value (0 with the error, as in Go)
AtoiNeverFails(s) == FALSE     \* a parse that reports no error

AtoiFails(s) == s \notin {"1", "2", "3", "4", "-2"}

Atoi(s) ==
    CASE s = "1"  -> 1
      [] s = "2"  -> 2
      [] s = "3"  -> 3
      [] s = "4"  -> 4
      [] s = "-2" -> -2
      [] OTHER    -> 0

\* strconv.Itoa on the integers in use
Itoa(n) ==
    CASE n = 1  -> "1"
      [] n = 2  -> "2"
      [] n = 3  -> "3"
      [] n = 4  -> "4"
      [] n = -2 -> "-2"
      [] OTHER  -> "0"

----------------------------------------------------------------------------
(* terraform-plugin-framework attribute values: null, unknown or known.    *)

StringNull      == [null |-> TRUE,  unknown |-> FALSE, v |-> ""]
StringUnknown   == [null |-> FALSE, unknown |-> TRUE,  v |-> ""]
StringValue(s)  == [null |-> FALSE, unknown |-> FALSE, v |-> s]

Int64Null       == [null |-> TRUE,  unknown |-> FALSE, v |-> 0]
Int64Unknown    == [null |-> FALSE, unknown |-> TRUE,  v |-> 0]
Int64Value(n)   == [null |-> FALSE, unknown |-> FALSE, v |-> n]

BoolNull        == [null |-> TRUE,  unknown |-> FALSE, v |-> FALSE]
BoolUnknown     == [null |-> FALSE, unknown |-> TRUE,  v |-> FALSE]
BoolValue(b)    == [null |-> FALSE, unknown |-> FALSE, v |-> b]

IsNull(x)       == x.null
IsUnknown(x)    == x.unknown
ValueString(x)  == x.v
ValueBool(x)    == x.v
ValueInt64(x)   == x.v

----------------------------------------------------------------------------
(* The secret template held by the remote store (server.SecretTemplate):   *)
(* one password-capable field and one file-bearing SSH key field.          *)

Template ==
    [ID     |-> 4,
     Fields |-> << [Name |-> "Password", FieldSlugName |-> "pw-slug",
                    SecretTemplateFieldID |-> 11,
                    IsPassword |-> TRUE, IsFile |-> FALSE],
                   [Name |-> "Private Key", FieldSlugName |-> "pk-slug",
                    SecretTemplateFieldID |-> 12,
                    IsPassword |-> FALSE, IsFile |-> TRUE] >>]

NoState  == [none |-> TRUE]
NoSecret == [none |-> TRUE]
NoArgs   == [none |-> TRUE]      \* a nil *SshKeyArgs

\* SshKeyArgs with both attributes declared
SshKeyArgs(keys, passphrase) ==
    [GenerateSshKeys |-> BoolValue(keys), GeneratePassphrase |-> BoolValue(passphrase)]

\* a remote call as entered in the call log
Call(name, arg) == [call |-> name, arg |-> arg]

----------------------------------------------------------------------------
(* Planning of fields[i].itemvalue: the attribute's plan modifiers, run in *)
(* schema order on the value the framework proposes.                       *)

\* stringplanmodifier.UseStateForUnknown()
UseStateForUnknown(configValue, stateValue, planValue) ==
    IF IsNull(stateValue) THEN planValue
    ELSE IF ~IsUnknown(planValue) THEN planValue
    ELSE IF IsUnknown(configValue) THEN planValue
    ELSE stateValue

\* shouldComputeSshKeyValue; the path is always fields[i].itemvalue
shouldComputeSshKeyValue(isCreate, configValue, planValue) ==
    IF ~isCreate THEN FALSE
    ELSE IF ~IsNull(configValue) /\ ValueString(configValue) = "" THEN FALSE
    ELSE ValueString(planValue) = ""

\* sshKeyFieldPlanModifier.PlanModifyString
sshKeyFieldPlanModifier(isCreate, configValue, stateValue, planValue) ==
    IF ~IsNull(configValue) THEN configValue
    ELSE IF ~IsNull(stateValue) /\ ValueString(stateValue) # "" THEN stateValue
    ELSE IF isCreate /\ (IsNull(planValue) \/ ValueString(planValue) = "")
            /\ shouldComputeSshKeyValue(isCreate, configValue, planValue)
         THEN StringUnknown
    ELSE IF IsNull(planValue) THEN StringValue("")
    ELSE planValue

\* shouldComputePasswordValue
shouldComputePasswordValue(isCreate, configValue) ==
    IF ~isCreate THEN FALSE
    ELSE IF ~IsNull(configValue) /\ ValueString(configValue) = "" THEN FALSE
    ELSE TRUE

\* passwordFieldPlanModifier.PlanModifyString
passwordFieldPlanModifier(isCreate, configValue, stateValue, planValue) ==
    IF ~IsNull(configValue) /\ ValueString(configValue) # "" THEN configValue
    ELSE IF ~IsNull(stateValue) /\ ValueString(stateValue) # ""
            /\ (IsNull(configValue) \/ ValueString(configValue) = "")
         THEN stateValue
    ELSE IF isCreate /\ (IsNull(planValue) \/ ValueString(planValue) = "")
            /\ shouldComputePasswordValue(isCreate, configValue)
         THEN StringUnknown
    ELSE planValue

\* An Optional+Computed attribute as the framework proposes it for an
\* operation that changes the resource: the declared value, unknown when
\* none is declared.
ProposedString(configValue) == IF IsNull(configValue) THEN StringUnknown ELSE configValue
ProposedInt64(configValue)  == IF IsNull(configValue) THEN Int64Unknown ELSE configValue
ProposedBool(configValue)   == IF IsNull(configValue) THEN BoolUnknown ELSE configValue

\* the planned itemvalue: the three modifiers of the schema, in order
PlanItemValue(isCreate, configValue, stateValue) ==
    LET p0 == ProposedString(configValue)
        p1 == UseStateForUnknown(configValue, stateValue, p0)
        p2 == sshKeyFieldPlanModifier(isCreate, configValue, stateValue, p1)
    IN  passwordFieldPlanModifier(isCreate, configValue, stateValue, p2)

\* req.StateValue of fields[i].itemvalue: the prior state at the same path
StateItemValue(prior, i) ==
    IF prior # NoState /\ i <= Len(prior.Fields)
    THEN prior.Fields[i].ItemValue
    ELSE StringNull

\* the plan the framework hands to Create and Update for declaration config
PlanOf(config, prior) ==
    [FolderID         |-> config.FolderID,
     SiteID           |-> config.SiteID,
     SecretTemplateID |-> config.SecretTemplateID,
     SshKeyArgs       |-> config.SshKeyArgs,
     Fields           |->
        [i \in 1..Len(config.Fields) |->
            LET cf == config.Fields[i] IN
            [FieldName        |-> cf.FieldName,
             ItemValue        |-> PlanItemValue(prior = NoState, cf.ItemValue,
                                                StateItemValue(prior, i)),
             FieldID          |-> Int64Unknown,
             FileAttachmentID |-> ProposedInt64(cf.FileAttachmentID),
             Slug             |-> StringUnknown,
             Filename         |-> ProposedString(cf.Filename),
             IsFile           |-> ProposedBool(cf.IsFile),
             IsPassword       |-> BoolUnknown]]]

----------------------------------------------------------------------------
(* The remote store (server.Server): one template, at most one secret.     *)
(* A call named by `fail` ends in a transport error.                       *)

\* client.SecretTemplate(id)
SecretTemplateFails(id, fail) == fail = "SecretTemplate" \/ id # Template.ID

\* the server fills the empty key and passphrase fields it was asked to generate
ServerGenerated(f, args) ==
    IF f.ItemValue = "" /\ args # NoArgs
       /\ (   (args.GenerateSshKeys /\ ContainsKey(ToLower(f.FieldName)))
           \/ (args.GeneratePassphrase /\ ContainsPassphrase(ToLower(f.FieldName))))
    THEN [f EXCEPT !.ItemValue = "k1"]
    ELSE f

\* client.CreateSecret(secret): the stored secret, with the id the server assigns
CreateSecret(secret, id) ==
    [ID               |-> id,
     FolderID         |-> secret.FolderID,
     SiteID           |-> secret.SiteID,
     SecretTemplateID |-> secret.SecretTemplateID,
     Fields           |-> [i \in 1..Len(secret.Fields) |->
                              ServerGenerated(secret.Fields[i], secret.SshKeyArgs)],
     SshKeyArgs       |-> NoArgs]

\* client.UpdateSecret(secret): the stored secret after the update
UpdateSecret(secret) ==
    [ID               |-> secret.ID,
     FolderID         |-> secret.FolderID,
     SiteID           |-> secret.SiteID,
     SecretTemplateID |-> secret.SecretTemplateID,
     Fields           |-> secret.Fields,
     SshKeyArgs       |-> NoArgs]

\* client.Secret(id) on store rem: the fields in the order perm, the
\* attachment identity echoed or not
\* a fetch that no transport error ends
SecretFailsOnlyWhenAbsent(rem, id, fail) == rem = NoSecret \/ rem.ID # id

SecretFails(rem, id, fail) == fail = "Secret" \/ rem = NoSecret \/ rem.ID # id

Secret(rem, perm, echo) ==
    [rem EXCEPT !.Fields =
        [i \in 1..Len(rem.Fields) |->
            LET f == rem.Fields[perm[i]] IN
            IF echo THEN f
            ELSE [f EXCEPT !.FileAttachmentID = 0, !.Filename = ""]]]

----------------------------------------------------------------------------
(* getSecretData, generatePassword, flattenSecret, readSecretByID.         *)

\* getSecretData's template lookup for a declared field name: the index of
\* the first template field equal to it by name or by slug, 0 when none
MatchTemplateFieldIn(template, fieldName) ==
    FirstIndex(LAMBDA tf : EqualFold(tf.Name, fieldName)
                           \/ EqualFold(tf.FieldSlugName, fieldName),
               template.Fields)

\* the same against the template the remote store of Spec returns
MatchTemplateField(fieldName) == MatchTemplateFieldIn(Template, fieldName)

\* the server.SecretField getSecretData builds for one declared field
BuildSecretField(field) ==
    LET tf        == Template.Fields[MatchTemplateField(field.FieldName)]
        itemValue == IF IsNull(field.ItemValue) THEN "" ELSE ValueString(field.ItemValue)
        attach    == tf.IsFile \/ (~IsNull(field.IsFile) /\ ValueBool(field.IsFile))
    IN  [FieldID          |-> tf.SecretTemplateFieldID,
         FieldName        |-> tf.Name,
         FileAttachmentID |-> IF attach /\ ~IsNull(field.FileAttachmentID)
                              THEN ValueInt64(field.FileAttachmentID) ELSE 0,
         Filename         |-> IF attach /\ ~IsNull(field.Filename)
                              THEN ValueString(field.Filename) ELSE "",
         IsFile           |-> tf.IsFile,
         IsPassword       |-> tf.IsPassword,
         ItemValue        |-> itemValue,
         Slug             |-> tf.FieldSlugName]

\* an error text without the field's name
FieldNotFoundUnnamed(fieldName) == "field not found in secret template"

\* fmt.Errorf("field '%s' not found in secret template", fieldName)
FieldNotFound(fieldName) ==
    CASE fieldName = "Bogus"       -> "field 'Bogus' not found in secret template"
      [] fieldName = "Notes"       -> "field 'Notes' not found in secret template"
      [] fieldName = "Password"    -> "field 'Password' not found in secret template"
      [] fieldName = "PASSWORD"    -> "field 'PASSWORD' not found in secret template"
      [] fieldName = "Private Key" -> "field 'Private Key' not found in secret template"

\* getSecretData(state): [err, secret, calls]
getSecretData(st, fail) ==
    IF AtoiFails(st.FolderID)
    THEN [err |-> "invalid Folder ID", secret |-> NoSecret, calls |-> <<>>]
    ELSE IF AtoiFails(st.SiteID)
    THEN [err |-> "invalid Site ID", secret |-> NoSecret, calls |-> <<>>]
    ELSE IF AtoiFails(st.SecretTemplateID)
    THEN [err |-> "invalid Template ID", secret |-> NoSecret, calls |-> <<>>]
    ELSE LET templateID == Atoi(st.SecretTemplateID)
             fetch      == <<Call("SecretTemplate", templateID)>>
         IN  IF SecretTemplateFails(templateID, fail)
             THEN [err |-> "failed to retrieve secret template",
                   secret |-> NoSecret, calls |-> fetch]
             ELSE IF \E i \in 1..Len(st.Fields) :
                        MatchTemplateField(st.Fields[i].FieldName) = 0
             THEN [err |-> FieldNotFound(
                              st.Fields[FirstIndex(
                                  LAMBDA f : MatchTemplateField(f.FieldName) = 0,
                                  st.Fields)].FieldName),
                   secret |-> NoSecret, calls |-> fetch]
             ELSE [err    |-> "",
                   calls  |-> fetch,
                   secret |->
                     [ID               |-> 0,
                      FolderID         |-> Atoi(st.FolderID),
                      SiteID           |-> Atoi(st.SiteID),
                      SecretTemplateID |-> templateID,
                      Fields           |-> [i \in 1..Len(st.Fields) |->
                                               BuildSecretField(st.Fields[i])],
                      SshKeyArgs       |->
                         IF st.SshKeyArgs = NoArgs THEN NoArgs
                         ELSE [GeneratePassphrase |->
                                   ValueBool(st.SshKeyArgs.GeneratePassphrase),
                               GenerateSshKeys |->
                                   ValueBool(st.SshKeyArgs.GenerateSshKeys)]]]

\* generatePassword's template lookup for a prepared field
MatchGenerateFieldIn(template, field) ==
    FirstIndex(LAMBDA tf : (field.FieldID > 0 /\ tf.SecretTemplateFieldID = field.FieldID)
                           \/ EqualFold(tf.Name, field.FieldName)
                           \/ EqualFold(tf.FieldSlugName, field.FieldName),
               template.Fields)

\* the same against the template the remote store of Spec returns
MatchGenerateField(field) == MatchGenerateFieldIn(Template, field)

\* whether generatePassword requests a value for the prepared field
NeedsGeneratedPassword(field) ==
    LET k == MatchGenerateField(field) IN
    k # 0 /\ Template.Fields[k].IsPassword /\ field.ItemValue = ""

\* generatePassword's loop over secret.Fields from index i on; gen is the
\* value client.GeneratePassword returns
RECURSIVE generateLoop(_, _, _, _, _)
generateLoop(secret, i, cs, fail, gen) ==
    IF i > Len(secret.Fields)
    THEN [err |-> "", secret |-> secret, calls |-> cs]
    ELSE IF NeedsGeneratedPassword(secret.Fields[i])
    THEN LET slug == Template.Fields[MatchGenerateField(secret.Fields[i])].FieldSlugName
             cs2  == Append(cs, Call("GeneratePassword", slug))
         IN  IF fail = "GeneratePassword"
             THEN [err |-> "failed to generate password", secret |-> NoSecret, calls |-> cs2]
             ELSE generateLoop([secret EXCEPT !.Fields[i].ItemValue = gen],
                               i + 1, cs2, fail, gen)
    ELSE generateLoop(secret, i + 1, cs, fail, gen)

\* generatePassword left out of Create: the prepared secret as it is
generatePasswordSkipped(st, fail, gen) == getSecretData(st, fail)

\* generatePassword(state): [err, secret, calls]
generatePassword(st, fail, gen) ==
    LET r == getSecretData(st, fail) IN
    IF r.err # "" THEN r
    ELSE LET cs == Append(r.calls, Call("SecretTemplate", Atoi(st.SecretTemplateID)))
         IN  generateLoop(r.secret, 1, cs, fail, gen)

\* flattenSecret's SecretField for one server field
FlattenField(f) ==
    [FieldName        |-> f.FieldName,
     ItemValue        |-> StringValue(f.ItemValue),
     FieldID          |-> Int64Value(f.FieldID),
     FileAttachmentID |-> Int64Value(f.FileAttachmentID),
     Slug             |-> StringValue(f.Slug),
     Filename         |-> StringValue(f.Filename),
     IsFile           |-> BoolValue(f.IsFile),
     IsPassword       |-> BoolValue(f.IsPassword)]

\* flattenSecret(secret)
flattenSecret(secret) ==
    [ID               |-> Itoa(secret.ID),
     FolderID         |-> Itoa(secret.FolderID),
     SiteID           |-> Itoa(secret.SiteID),
     SecretTemplateID |-> Itoa(secret.SecretTemplateID),
     Fields           |-> [i \in 1..Len(secret.Fields) |-> FlattenField(secret.Fields[i])],
     SshKeyArgs       |-> IF secret.SshKeyArgs = NoArgs THEN NoArgs
                          ELSE SshKeyArgs(secret.SshKeyArgs.GenerateSshKeys,
                                          secret.SshKeyArgs.GeneratePassphrase)]

\* readSecretByID(id) on store rem: [err, state, calls]
\* a refresh that takes the secret without a fetch call to the remote store
readSecretWithoutFetch(rem, id, fail, perm, echo) ==
    IF AtoiFails(id)
    THEN [err |-> "invalid secret ID", state |-> NoState, calls |-> <<>>]
    ELSE IF SecretFails(rem, Atoi(id), fail)
    THEN [err |-> "Failed to retrieve secret", state |-> NoState, calls |-> <<>>]
    ELSE [err |-> "", state |-> flattenSecret(Secret(rem, perm, echo)), calls |-> <<>>]

readSecretByID(rem, id, fail, perm, echo) ==
    IF AtoiFails(id)
    THEN [err |-> "invalid secret ID", state |-> NoState, calls |-> <<>>]
    ELSE IF SecretFails(rem, Atoi(id), fail)
    THEN [err |-> "Failed to retrieve secret", state |-> NoState,
          calls |-> <<Call("Secret", Atoi(id))>>]
    ELSE [err |-> "", state |-> flattenSecret(Secret(rem, perm, echo)),
          calls |-> <<Call("Secret", Atoi(id))>>]

----------------------------------------------------------------------------
(* reorderFieldsToMatchPlan.                                               *)

\* stateFieldMap[name]: the last state field whose lower-cased name is name
StateFieldMapHas(stateFields, name) ==
    \E i \in 1..Len(stateFields) : ToLower(stateFields[i].FieldName) = name

StateFieldMapGet(stateFields, name) ==
    LET last == CHOOSE i \in 1..Len(stateFields) :
                    /\ ToLower(stateFields[i].FieldName) = name
                    /\ \A j \in (i + 1)..Len(stateFields) :
                          ToLower(stateFields[j].FieldName) # name
    IN  stateFields[last]

\* a first loop that keeps a plan field no state field matches
RECURSIVE MatchedOrKept(_, _)
MatchedOrKept(planFields, stateFields) ==
    IF planFields = <<>> THEN <<>>
    ELSE LET name == ToLower(Head(planFields).FieldName)
             rest == MatchedOrKept(Tail(planFields), stateFields)
         IN  IF StateFieldMapHas(stateFields, name)
             THEN <<StateFieldMapGet(stateFields, name)>> \o rest
             ELSE <<Head(planFields)>> \o rest

\* the first loop: the plan's fields, each replaced by its state field
RECURSIVE MatchedInPlanOrder(_, _)
MatchedInPlanOrder(planFields, stateFields) ==
    IF planFields = <<>> THEN <<>>
    ELSE LET name == ToLower(Head(planFields).FieldName)
             rest == MatchedInPlanOrder(Tail(planFields), stateFields)
         IN  IF StateFieldMapHas(stateFields, name)
             THEN <<StateFieldMapGet(stateFields, name)>> \o rest
             ELSE rest

\* the second loop without its found check: every state field is appended
AppendEveryStateField(reordered, stateFields) == reordered \o stateFields

\* the second loop: state fields not yet in the result are appended
RECURSIVE AppendUnmatched(_, _)
AppendUnmatched(reordered, stateFields) ==
    IF stateFields = <<>> THEN reordered
    ELSE LET sf    == Head(stateFields)
             found == \E i \in 1..Len(reordered) :
                          EqualFold(sf.FieldName, reordered[i].FieldName)
         IN  AppendUnmatched(IF found THEN reordered ELSE Append(reordered, sf),
                             Tail(stateFields))

\* no reordering: the remote order is kept
reorderKeepsRemoteOrder(planFields, stateFields) == stateFields

reorderFieldsToMatchPlan(planFields, stateFields) ==
    AppendUnmatched(MatchedInPlanOrder(planFields, stateFields), stateFields)

----------------------------------------------------------------------------
(* The bodies of Create, Read and Update between the remote calls.         *)

\* state.SshKeyArgs != nil && (GenerateSshKeys || GeneratePassphrase)
HasSshKeyArgs(st) ==
    /\ st.SshKeyArgs # NoArgs
    /\ (ValueBool(st.SshKeyArgs.GenerateSshKeys)
        \/ ValueBool(st.SshKeyArgs.GeneratePassphrase))

\* hasSshKeyArgs && (name contains "key" || name contains "passphrase")
IsSSHKeyField(hasSshKeyArgs, fieldName) ==
    hasSshKeyArgs /\ (ContainsKey(ToLower(fieldName))
                      \/ ContainsPassphrase(ToLower(fieldName)))

\* Update, the loop over updatedSecret.Fields: the value and filename sent
\* for one prepared field, given the prior state and the plan
PreserveOnUpdate(field, st, plan, hasSshKeyArgs) ==
    LET fieldName == field.FieldName
        sIdx == FirstIndex(LAMBDA sf : EqualFold(sf.FieldName, fieldName), st.Fields)
        pIdx == FirstIndex(LAMBDA pf : EqualFold(pf.FieldName, fieldName), plan.Fields)
        isPasswordField ==
            /\ sIdx # 0
            /\ ~IsNull(st.Fields[sIdx].IsPassword)
            /\ ValueBool(st.Fields[sIdx].IsPassword)
    IN  IF (IsSSHKeyField(hasSshKeyArgs, fieldName) \/ isPasswordField) /\ sIdx # 0
        THEN LET stateField == st.Fields[sIdx]
                 keep == IF pIdx # 0
                         THEN IsNull(plan.Fields[pIdx].ItemValue)
                              \/ ValueString(plan.Fields[pIdx].ItemValue) = ""
                         ELSE TRUE
                 f1 == IF keep
                       THEN [field EXCEPT !.ItemValue = ValueString(stateField.ItemValue)]
                       ELSE field
             IN  IF ~IsNull(stateField.Filename) /\ ValueString(stateField.Filename) # ""
                 THEN [f1 EXCEPT !.Filename = ValueString(stateField.Filename)]
                 ELSE f1
        ELSE field

\* Create: attachment identity of a file field taken from the plan
AttachFromPlan(field, planFields) ==
    LET pIdx == FirstIndex(LAMBDA pf : pf.FieldName = field.FieldName /\ ValueBool(pf.IsFile),
                           planFields)
    IN  IF ValueBool(field.IsFile) /\ pIdx # 0
        THEN [field EXCEPT !.FileAttachmentID = planFields[pIdx].FileAttachmentID,
                           !.Filename = planFields[pIdx].Filename]
        ELSE field

\* Read and Update: attachment identity taken from the prior state
AttachFromState(field, stateFields, hasSshKeyArgs) ==
    LET fieldName == field.FieldName
        sIdx == FirstIndex(LAMBDA sf : sf.FieldName = fieldName, stateFields)
    IN  IF (ValueBool(field.IsFile) \/ IsSSHKeyField(hasSshKeyArgs, fieldName)) /\ sIdx # 0
        THEN LET old == stateFields[sIdx]
                 f1  == IF ~IsNull(old.FileAttachmentID)
                        THEN [field EXCEPT !.FileAttachmentID = old.FileAttachmentID]
                        ELSE field
             IN  IF ~IsNull(old.Filename) /\ ValueString(old.Filename) # ""
                 THEN [f1 EXCEPT !.Filename = old.Filename]
                 ELSE f1
        ELSE field

\* Update only: a filename still empty is taken from the plan
FilenameFromPlan(field, planFields, hasSshKeyArgs) ==
    LET fieldName == field.FieldName
        pIdx == FirstIndex(LAMBDA pf : pf.FieldName = fieldName, planFields)
    IN  IF /\ ValueBool(field.IsFile) \/ IsSSHKeyField(hasSshKeyArgs, fieldName)
           /\ IsNull(field.Filename) \/ ValueString(field.Filename) = ""
           /\ pIdx # 0
           /\ ~IsNull(planFields[pIdx].Filename)
           /\ ValueString(planFields[pIdx].Filename) # ""
        THEN [field EXCEPT !.Filename = planFields[pIdx].Filename]
        ELSE field

\* the record Create hands to resp.State.Set
CreatedState(plan, read) ==
    LET ordered == reorderFieldsToMatchPlan(plan.Fields, read.Fields) IN
    [read EXCEPT
        !.SshKeyArgs = IF plan.SshKeyArgs # NoArgs THEN plan.SshKeyArgs ELSE @,
        !.Fields     = [i \in 1..Len(ordered) |-> AttachFromPlan(ordered[i], plan.Fields)]]

\* the record of a Read that takes the SSH key arguments the store returned
ReadStateWithoutArgs(st, read) ==
    LET ordered == reorderFieldsToMatchPlan(st.Fields, read.Fields) IN
    [read EXCEPT
        !.Fields     = [i \in 1..Len(ordered) |->
                           AttachFromState(ordered[i], st.Fields, HasSshKeyArgs(st))]]

\* the record Read hands to resp.State.Set
ReadState(st, read) ==
    LET ordered == reorderFieldsToMatchPlan(st.Fields, read.Fields) IN
    [read EXCEPT
        !.SshKeyArgs = IF st.SshKeyArgs # NoArgs THEN st.SshKeyArgs ELSE @,
        !.Fields     = [i \in 1..Len(ordered) |->
                           AttachFromState(ordered[i], st.Fields, HasSshKeyArgs(st))]]

\* the record Update hands to resp.State.Set
UpdatedState(st, plan, read) ==
    LET ordered == reorderFieldsToMatchPlan(plan.Fields, read.Fields) IN
    [read EXCEPT
        !.SshKeyArgs = IF plan.SshKeyArgs # NoArgs THEN plan.SshKeyArgs ELSE @,
        !.Fields     = [i \in 1..Len(ordered) |->
                           FilenameFromPlan(
                               AttachFromState(ordered[i], st.Fields, HasSshKeyArgs(st)),
                               plan.Fields, HasSshKeyArgs(st))]]

\* the prepared secret sent without the id of the durable record
UpdatedSecretWithoutID(st, plan, prepared) ==
    [prepared EXCEPT
        !.Fields = [i \in 1..Len(prepared.Fields) |->
                       PreserveOnUpdate(prepared.Fields[i], st, plan, HasSshKeyArgs(st))]]

\* the plan Update prepares the secret from, with its SshKeyArgs
updatePlanWithArgs(plan) == plan

\* updatePlan := plan; updatePlan.SshKeyArgs = nil
updatePlan(plan) == [plan EXCEPT !.SshKeyArgs = NoArgs]

\* the secret Update sends: getSecretData on the plan without SshKeyArgs,
\* then the preserve loop
UpdatedSecret(st, plan, prepared) ==
    [prepared EXCEPT
        !.ID     = Atoi(st.ID),
        !.Fields = [i \in 1..Len(prepared.Fields) |->
                       PreserveOnUpdate(prepared.Fields[i], st, plan, HasSshKeyArgs(st))]]

----------------------------------------------------------------------------
(* The declarations the resource is applied with.                          *)

MaxCreates == 2     \* secrets the remote store creates in one behaviour

NoFile   == [IsFile |-> BoolNull, FileAttachmentID |-> Int64Null, Filename |-> StringNull]
FileDecl == [IsFile |-> BoolValue(TRUE), FileAttachmentID |-> Int64Value(5),
             Filename |-> StringValue("k.pem")]

DeclaredValues == {StringNull, StringValue(""), StringValue("v1")}

Declared(name, value, file) ==
    [FieldName        |-> name,
     ItemValue        |-> value,
     IsFile           |-> file.IsFile,
     FileAttachmentID |-> file.FileAttachmentID,
     Filename         |-> file.Filename]

\* the password field by name or by slug, the key field by name in either
\* case (with or without a declared attachment), and a field no template has
DeclaredFields ==
    {Declared(n, v, NoFile) : n \in {"Password", "pw-slug"}, v \in DeclaredValues}
    \cup {Declared(n, v, f) : n \in {"Private Key", "private key"},
                              v \in DeclaredValues, f \in {NoFile, FileDecl}}
    \cup {Declared("Bogus", StringNull, NoFile)}

\* the lists of declared fields: none, any single field, and the two
\* template fields by name in either order
DeclaredFieldLists ==
    {<<>>} \cup {<<f>> : f \in DeclaredFields}
    \cup {<<Declared("Password", v, NoFile), Declared("Private Key", w, NoFile)>> :
              v, w \in DeclaredValues}
    \cup {<<Declared("Private Key", w, NoFile), Declared("Password", v, NoFile)>> :
              v, w \in DeclaredValues}

DeclaredSshKeyArgs == {NoArgs, SshKeyArgs(FALSE, FALSE), SshKeyArgs(TRUE, TRUE)}

Declaration(folder, site, template, fields, args) ==
    [FolderID |-> folder, SiteID |-> site, SecretTemplateID |-> template,
     Fields |-> fields, SshKeyArgs |-> args]

\* declarations whose identifiers parse, three whose identifiers do not, and
\* two with a negative identifier
Declarations ==
    {Declaration("2", "3", "4", fs, a) : fs \in DeclaredFieldLists, a \in DeclaredSshKeyArgs}
    \cup {Declaration("x", "3", "4", <<>>, NoArgs),
          Declaration("2", "x", "4", <<>>, NoArgs),
          Declaration("2", "3", "x", <<>>, NoArgs)}
    \cup {Declaration("-2", "3", "4", <<>>, NoArgs),
          Declaration("2", "3", "-2", <<>>, NoArgs)}

GeneratedValues == {"g1", "g2"}

Identity(n) == [i \in 1..n |-> i]

\* whether a field list carries an attachment identity the store could drop
DeclaresAttachment(fields) ==
    \E i \in 1..Len(fields) : ~IsNull(fields[i].FileAttachmentID)

StoresAttachment(fields) ==
    \E i \in 1..Len(fields) : fields[i].FileAttachmentID # 0 \/ fields[i].Filename # ""

\* how the remote store behaves during one operation on n fields: one call
\* kind fails, or none does and the read returns the fields in some order,
\* echoing the attachment identity or (when there is one) not
Behaviours(failing, n, attached) ==
    {[fail |-> f, perm |-> Identity(n), echo |-> TRUE] : f \in failing}
    \cup {[fail |-> "none", perm |-> p, echo |-> e] :
             p \in Perms(Identity(n)), e \in IF attached THEN BOOLEAN ELSE {TRUE}}

----------------------------------------------------------------------------
(* The resource lifecycle.                                                 *)

Idle    == [kind |-> "idle"]

Error(summary, detail) == [error |-> summary, detail |-> detail]
NoError == [error |-> "", detail |-> ""]

\* an operation in progress: its kind, the declaration, the durable record
\* it started from, and the remote call that fails during it ("none" if none)
Operation(kind, config, prior, fail) ==
    [kind |-> kind, config |-> config, prior |-> prior, fail |-> fail]

InitResource ==
    /\ state = NoState
    /\ remote = NoSecret
    /\ nextID = 1
    /\ op = Idle
    /\ calls = <<>>
    /\ diags = NoError

\* TssSecretResource.Create on the plan of declaration config
Create(config, b, gen) ==
    /\ op = Idle
    /\ state = NoState
    /\ nextID <= MaxCreates
    /\ op' = Operation("Create", config, state, b.fail)
    /\ \E plan \in {PlanOf(config, NoState)} :
       \E g \in {generatePassword(plan, b.fail, gen)} :
          IF g.err # ""
          THEN /\ diags' = Error("Secret Data Error", g.err)
               /\ calls' = g.calls
               /\ UNCHANGED <<state, remote, nextID>>
          ELSE IF b.fail = "CreateSecret"
          THEN /\ diags' = Error("Secret Creation Error", "Failed to create secret")
               /\ calls' = Append(g.calls, Call("CreateSecret", g.secret))
               /\ UNCHANGED <<state, remote, nextID>>
          ELSE \E made \in {CreateSecret(g.secret, nextID)} :
               \E r \in {readSecretByID(made, Itoa(nextID), b.fail, b.perm, b.echo)} :
                  /\ remote' = made
                  /\ nextID' = nextID + 1
                  /\ calls' = Append(g.calls, Call("CreateSecret", g.secret)) \o r.calls
                  /\ IF r.err # ""
                     THEN /\ diags' = Error("Secret Retrieval Error", r.err)
                          /\ UNCHANGED state
                     ELSE /\ diags' = NoError
                          /\ state' = CreatedState(plan, r.state)

\* TssSecretResource.Read
Read(b) ==
    /\ op = Idle
    /\ state # NoState
    /\ op' = Operation("Read", Idle, state, b.fail)
    /\ UNCHANGED <<remote, nextID>>
    /\ \E r \in {readSecretByID(remote, state.ID, b.fail, b.perm, b.echo)} :
          /\ calls' = r.calls
          /\ IF r.err # ""
             THEN /\ diags' = Error("Secret Retrieval Error", r.err)
                  /\ UNCHANGED state
             ELSE /\ diags' = NoError
                  /\ state' = ReadState(state, r.state)

\* TssSecretResource.Update on the plan of declaration config
Update(config, b) ==
    /\ op = Idle
    /\ state # NoState
    /\ op' = Operation("Update", config, state, b.fail)
    /\ UNCHANGED nextID
    /\ \E plan \in {PlanOf(config, state)} :
       \E g \in {getSecretData(updatePlan(plan), b.fail)} :
          IF g.err # ""
          THEN /\ diags' = Error("Secret Data Error", g.err)
               /\ calls' = g.calls
               /\ UNCHANGED <<state, remote>>
          ELSE IF AtoiFails(state.ID)
          THEN /\ diags' = Error("Error converting ID from string to int", state.ID)
               /\ calls' = g.calls
               /\ UNCHANGED <<state, remote>>
          ELSE \E sent \in {UpdatedSecret(state, plan, g.secret)} :
               IF b.fail = "UpdateSecret" \/ remote = NoSecret \/ remote.ID # sent.ID
               THEN /\ diags' = Error("Secret Update Error", "Failed to update secret")
                    /\ calls' = Append(g.calls, Call("UpdateSecret", sent))
                    /\ UNCHANGED <<state, remote>>
               ELSE \E made \in {UpdateSecret(sent)} :
                    \E r \in {readSecretByID(made, state.ID, b.fail, b.perm, b.echo)} :
                       /\ remote' = made
                       /\ calls' = Append(g.calls, Call("UpdateSecret", sent)) \o r.calls
                       /\ IF r.err # ""
                          THEN /\ diags' = Error("Secret Retrieval Error", r.err)
                               /\ UNCHANGED state
                          ELSE /\ diags' = NoError
                               /\ state' = UpdatedState(state, plan, r.state)

\* TssSecretResource.Delete
Delete(fail) ==
    /\ op = Idle
    /\ state # NoState
    /\ LET idtoi == Atoi(state.ID)
       IN  /\ op' = Operation("Delete", Idle, state, fail)
           /\ calls' = <<Call("DeleteSecret", idtoi)>>
           /\ UNCHANGED nextID
           /\ IF fail = "DeleteSecret" \/ remote = NoSecret \/ remote.ID # idtoi
              THEN /\ diags' = Error("Secret Deletion Error", "Failed to delete secret")
                   /\ UNCHANGED <<state, remote>>
              ELSE /\ diags' = NoError
                   /\ remote' = NoSecret
                   /\ state' = NoState

\* the handler returns: its response has been delivered to the host, the
\* call log and diagnostics of the operation are dropped
Return ==
    /\ op # Idle
    /\ op' = Idle
    /\ calls' = <<>>
    /\ diags' = NoError
    /\ UNCHANGED <<state, remote, nextID>>

CreateStep(declarations, faults) ==
    /\ op = Idle /\ state = NoState /\ nextID <= MaxCreates
    /\ \E config \in declarations :
        \E b \in Behaviours(faults \cap {"SecretTemplate", "GeneratePassword",
                                         "CreateSecret", "Secret"},
                            Len(config.Fields), DeclaresAttachment(config.Fields)),
           gen \in GeneratedValues :
            Create(config, b, gen)

ReadStep(faults) ==
    /\ op = Idle /\ state # NoState
    /\ \E b \in Behaviours(faults \cap {"Secret"},
                        IF remote = NoSecret THEN 0 ELSE Len(remote.Fields),
                        remote # NoSecret /\ StoresAttachment(remote.Fields)) :
        Read(b)

UpdateStep(declarations, faults) ==
    /\ op = Idle /\ state # NoState
    /\ \E config \in declarations :
        \E b \in Behaviours(faults \cap {"SecretTemplate", "UpdateSecret", "Secret"},
                            Len(config.Fields),
                            DeclaresAttachment(config.Fields)
                            \/ (remote # NoSecret /\ StoresAttachment(remote.Fields))) :
            Update(config, b)

DeleteStep(faults) ==
    /\ op = Idle /\ state # NoState
    /\ \E fail \in {"none"} \cup (faults \cap {"DeleteSecret"}) : Delete(fail)

Idles == rc = Idle /\ store = Idle /\ lease = Idle

Init == InitResource /\ Idles

\* the remote calls that may end in a transport error
Faults == {"SecretTemplate", "GeneratePassword", "CreateSecret", "UpdateSecret",
           "Secret", "DeleteSecret"}

\* Spec: every declaration, a remote store that answers every call
Next ==
    \/ CreateStep(Declarations, {}) /\ UNCHANGED <<rc, store, lease>>
    \/ ReadStep({})                 /\ UNCHANGED <<rc, store, lease>>
    \/ UpdateStep(Declarations, {}) /\ UNCHANGED <<rc, store, lease>>
    \/ DeleteStep({})               /\ UNCHANGED <<rc, store, lease>>
    \/ Return                       /\ UNCHANGED <<rc, store, lease>>

Spec == Init /\ [][Next]_vars

\* SpecFaults: a remote store in which any one call of an operation may end
\* in a transport error, on the declarations of at most one field
FaultDeclarations ==
    {d \in Declarations :
        /\ Len(d.Fields) <= 1
        /\ d.SshKeyArgs \in {NoArgs, SshKeyArgs(TRUE, TRUE)}
        /\ \A i \in 1..Len(d.Fields) : IsNull(d.Fields[i].IsFile)}

NextFaults ==
    \/ CreateStep(FaultDeclarations, Faults) /\ UNCHANGED <<rc, store, lease>>
    \/ ReadStep(Faults)                      /\ UNCHANGED <<rc, store, lease>>
    \/ UpdateStep(FaultDeclarations, Faults) /\ UNCHANGED <<rc, store, lease>>
    \/ DeleteStep(Faults)                    /\ UNCHANGED <<rc, store, lease>>
    \/ Return                                /\ UNCHANGED <<rc, store, lease>>

SpecFaults == Init /\ [][NextFaults]_vars

\* TssSecretResource.ImportState: the id the user gives is saved to the id
\* attribute of a record that holds nothing else
ImportState(id) ==
    /\ op = Idle
    /\ state = NoState
    /\ op' = Operation("Import", Idle, state, "none")
    /\ state' = [ID |-> id, FolderID |-> "", SiteID |-> "", SecretTemplateID |-> "",
                 Fields |-> <<>>, SshKeyArgs |-> NoArgs]
    /\ calls' = <<>>
    /\ diags' = NoError
    /\ UNCHANGED <<remote, nextID>>

\* the ids a user may import under: of a stored secret, and no integer
ImportIDs == {"1", "2", "x"}

\* SpecImport: SpecFaults with records adopted by import
NextImport ==
    \/ NextFaults
    \/ (\E id \in ImportIDs : ImportState(id)) /\ UNCHANGED <<rc, store, lease>>

SpecImport == Init /\ [][NextImport]_vars

----------------------------------------------------------------------------
(* SpecReconcile: reorderFieldsToMatchPlan applied to a drawn plan list D  *)
(* and remote list R, to a permutation of R, and to its own output.        *)

MaxPlanFields   == 2    \* longest plan list drawn
MaxRemoteFields == 3    \* longest remote list drawn

SeqsUpTo(S, n) == UNION {[1..k -> S] : k \in 0..n}

PlanNames   == {"Password", "password", "Notes"}
RemoteNames == {"Password", "PASSWORD", "Notes", "Private Key"}

PlanLists   == SeqsUpTo({[FieldName |-> n] : n \in PlanNames}, MaxPlanFields)
RemoteLists == SeqsUpTo({[FieldName |-> n, ItemValue |-> StringValue("v1")] :
                            n \in RemoteNames}, MaxRemoteFields)

InitReconcile ==
    rc \in {[phase |-> "drawn", D |-> d, R |-> r] : d \in PlanLists, r \in RemoteLists}

\* one run of the reconciler on D and R, on D and R permuted by p, and on D
\* and its own output
Reconcile(p) ==
    /\ rc.phase = "drawn"
    /\ \E out \in {reorderFieldsToMatchPlan(rc.D, rc.R)} :
          rc' = [phase    |-> "done",
                 D        |-> rc.D,
                 R        |-> rc.R,
                 perm     |-> p,
                 out      |-> out,
                 permuted |-> reorderFieldsToMatchPlan(rc.D, Permute(rc.R, p)),
                 again    |-> reorderFieldsToMatchPlan(rc.D, out)]

ReconcileStep ==
    /\ rc.phase = "drawn"
    /\ \E p \in Perms(rc.R) : Reconcile(p)

NextReconcile == ReconcileStep /\ UNCHANGED <<resourceVars, store, lease>>

InitSpecReconcile ==
    InitResource /\ InitReconcile /\ store = Idle /\ lease = Idle

SpecReconcile == InitSpecReconcile /\ [][NextReconcile]_vars

----------------------------------------------------------------------------
(* SpecLease: the ephemeral tss_secrets resource.  The remote store        *)
(* answers a fetch of an id with an error, with a secret that lacks the    *)
(* requested field, or with a secret that carries it.                      *)

MaxIDs == 2     \* longest list of ids requested

SecretIDs == {1, 2}             \* the ids a declaration requests

Unreachable == [none |-> TRUE]  \* client.Secret(id) returns an error

StoredSecret(id, fields) == [ID |-> id, Fields |-> fields]

PasswordField(value) ==
    [FieldName |-> "password", Slug |-> "password", ItemValue |-> value]

\* what the store may answer for id
Answers(id) ==
    {Unreachable, StoredSecret(id, <<>>),
     StoredSecret(id, <<PasswordField("s1")>>),
     StoredSecret(id, <<PasswordField("s2")>>)}

\* the zero value included: the id an Int64 has after the carry-state
\* round trip
FetchedIDs == SecretIDs \cup {0}

Stores == {st \in [FetchedIDs -> UNION {Answers(id) : id \in FetchedIDs}] :
              \A id \in FetchedIDs : st[id] \in Answers(id)}

\* secret.Field(name): the value of the field of that name or slug
HasField(secret, name) ==
    \E i \in 1..Len(secret.Fields) :
        secret.Fields[i].FieldName = name \/ secret.Fields[i].Slug = name

Field(secret, name) ==
    secret.Fields[FirstIndex(LAMBDA f : f.FieldName = name \/ f.Slug = name,
                             secret.Fields)].ItemValue

Warning(summary, id) == [severity |-> "warning", summary |-> summary, id |-> id]
Fatal(summary)       == [severity |-> "error", summary |-> summary]

\* a fetch failure recorded as a fatal error
FetchFailureFatal(acc, secretID) ==
    [acc EXCEPT !.diags = Append(@, Fatal("Secret Fetch Error"))]

\* client.Secret(secretID) failed: a warning naming the id
FetchFailure(acc, secretID) ==
    [acc EXCEPT !.diags = Append(@, Warning("Secret Fetch Warning", secretID))]

\* the loop of Open and of Renew over the ids, from position i on:
\* [results, diags, fetched]
RECURSIVE fetchSecrets(_, _, _, _)
fetchSecrets(ids, field, i, acc) ==
    IF i > Len(ids) THEN acc
    ELSE LET secretID == ValueInt64(ids[i])
             secret   == store[secretID]
             fetched  == Append(acc.fetched, secretID)
         IN  IF secret = Unreachable
             THEN fetchSecrets(ids, field, i + 1,
                      FetchFailure([acc EXCEPT !.fetched = fetched], secretID))
             ELSE IF ~HasField(secret, field)
             THEN fetchSecrets(ids, field, i + 1,
                      [acc EXCEPT !.fetched = fetched,
                                  !.diags = Append(@, Fatal("Field Not Found"))])
             ELSE fetchSecrets(ids, field, i + 1,
                      [acc EXCEPT !.fetched = fetched,
                                  !.results = Append(@,
                                      [ID    |-> Int64Value(secretID),
                                       Value |-> StringValue(Field(secret, field))])])

NoResults == [results |-> <<>>, diags |-> <<>>, fetched |-> <<>>]

\* json.Marshal of a framework value (types.Int64, types.String): a struct
\* without exported fields, the object {}
EmptyObject == [json |-> "{}"]

\* json.Marshal(TSSSecretsPrivateData{IDs, Field, Secrets})
MarshalPrivateData(ids, field, secrets) ==
    [IDs     |-> [i \in 1..Len(ids) |-> EmptyObject],
     field   |-> field,
     Secrets |-> [i \in 1..Len(secrets) |-> [ID |-> EmptyObject, Value |-> EmptyObject]]]

\* json.Unmarshal into TSSSecretsPrivateData: {} leaves a framework value
\* at its zero value, which is null
UnmarshalPrivateData(bytes) ==
    [IDs     |-> [i \in 1..Len(bytes.IDs) |-> Int64Null],
     Field   |-> bytes.field,
     Secrets |-> [i \in 1..Len(bytes.Secrets) |-> [ID |-> Int64Null, Value |-> StringNull]]]

\* bytes json.Unmarshal rejects
InvalidJSON == [json |-> "invalid"]

\* a check of the id list alone
IncompletePrivateDataIdsOnly(privateData) ==
    Len(privateData.IDs) = 0

\* privateData.IDs is empty or privateData.Field is empty
IncompletePrivateData(privateData) ==
    Len(privateData.IDs) = 0 \/ privateData.Field = ""

NoResult  == [none |-> TRUE]    \* resp.Result was not set
NoPrivate == [none |-> TRUE]    \* no tss_secrets_data key

\* the response of an ephemeral operation, and the ids it fetched
Lease(kind, config, diagnostics, fetched, result, renewAt, private) ==
    [kind |-> kind, config |-> config, diags |-> diagnostics, fetched |-> fetched,
     result |-> result, renewAt |-> renewAt, private |-> private]

Closed == [kind |-> "closed"]

\* TSSSecretsEphemeralResource.Open
Open(config) ==
    /\ lease = Closed
    /\ IF Len(config.IDs) = 0 \/ IsNull(config.Field)
       THEN lease' = Lease("Open", config, <<Fatal("Missing Required Field")>>, <<>>,
                           NoResult, FALSE, NoPrivate)
       ELSE \E r \in {fetchSecrets(config.IDs, ValueString(config.Field), 1, NoResults)} :
               lease' = Lease("Open", config, r.diags, r.fetched,
                              [IDs |-> config.IDs, Field |-> config.Field,
                               Secrets |-> r.results],
                              TRUE,
                              MarshalPrivateData(config.IDs, ValueString(config.Field),
                                                 r.results))
    /\ UNCHANGED store

HasError(diagnostics) ==
    \E i \in 1..Len(diagnostics) : diagnostics[i].severity = "error"

\* TSSSecretsEphemeralResource.Renew on the private data of the last
\* response; the host renews a lease whose last response set a deadline and
\* reported no error
Renew ==
    /\ lease # Closed
    /\ lease.renewAt
    /\ ~HasError(lease.diags)
    /\ IF lease.private = NoPrivate
       THEN lease' = Lease("Renew", lease.config, <<Fatal("Missing Private Data")>>, <<>>,
                           NoResult, FALSE, NoPrivate)
       ELSE IF lease.private = InvalidJSON
       THEN lease' = Lease("Renew", lease.config, <<Fatal("Invalid Private Data")>>, <<>>,
                           NoResult, FALSE, NoPrivate)
       ELSE \E privateData \in {UnmarshalPrivateData(lease.private)} :
            IF IncompletePrivateData(privateData)
            THEN lease' = Lease("Renew", lease.config,
                                <<Fatal("Missing Private Data Fields")>>, <<>>,
                                NoResult, FALSE, NoPrivate)
            ELSE \E r \in {fetchSecrets(privateData.IDs, privateData.Field, 1, NoResults)} :
                    lease' = Lease("Renew", lease.config, r.diags, r.fetched,
                                   NoResult, TRUE,
                                   MarshalPrivateData(privateData.IDs, privateData.Field,
                                                      r.results))
    /\ UNCHANGED store

\* TSSSecretsEphemeralResource.Close: the host drops the lease
Close ==
    /\ lease # Closed
    /\ lease' = Closed
    /\ UNCHANGED store

RequestedFields == {StringNull, StringValue(""), StringValue("password")}

LeaseConfigs ==
    {[IDs |-> ids, Field |-> f] :
        ids \in SeqsUpTo({Int64Value(id) : id \in SecretIDs}, MaxIDs),
        f \in RequestedFields}

OpenStep == \E config \in LeaseConfigs : Open(config)

InitSpecLease ==
    /\ InitResource
    /\ rc = Idle
    /\ store \in Stores
    /\ lease = Closed

NextLease ==
    \/ OpenStep /\ UNCHANGED <<resourceVars, rc>>
    \/ Renew    /\ UNCHANGED <<resourceVars, rc>>
    \/ Close    /\ UNCHANGED <<resourceVars, rc>>

SpecLease == InitSpecLease /\ [][NextLease]_vars

----------------------------------------------------------------------------
(* SpecBinder: the two template-field lookups, of getSecretData and of     *)
(* generatePassword, on drawn templates and one declared field.  A         *)
(* template's fields take their names and slugs from small alphabets whose *)
(* members collide case-insensitively; the k-th field has id 10 + k.       *)

MaxTemplateFields == 3

TemplateNames == {"Password", "Notes"}
TemplateSlugs == {"password", "notes"}

\* the templates client.SecretTemplate may return
Templates ==
    {[ID |-> 4,
      Fields |-> [k \in 1..n |-> [Name                  |-> names[k],
                                  FieldSlugName         |-> slugs[k],
                                  SecretTemplateFieldID |-> 10 + k,
                                  IsPassword            |-> FALSE,
                                  IsFile                |-> FALSE]]] :
        <<n, names, slugs>> \in
            UNION {{<<m, ns, ss>> : ns \in [1..m -> TemplateNames],
                                    ss \in [1..m -> TemplateSlugs]} :
                   m \in 1..MaxTemplateFields}}

\* a declared field: fieldname and the optional fieldid
DeclaredBindings ==
    {[FieldName |-> n, FieldID |-> id] :
        n \in {"PASSWORD", "Notes", "Bogus"},
        id \in {Int64Null, Int64Value(11), Int64Value(12)}}

InitBinder ==
    rc \in {[phase |-> "drawn", template |-> t, field |-> f] :
                t \in Templates, f \in DeclaredBindings}

\* the template field getSecretData binds the declared field to, and the
\* template field generatePassword then looks up for the server.SecretField
\* built from it; each looked up twice
Bind ==
    /\ rc.phase = "drawn"
    /\ \E k \in {MatchTemplateFieldIn(rc.template, rc.field.FieldName)} :
          rc' = [phase     |-> "bound",
                 template  |-> rc.template,
                 field     |-> rc.field,
                 prepared  |-> k,
                 again     |-> MatchTemplateFieldIn(rc.template, rc.field.FieldName),
                 generated |->
                    IF k = 0 THEN 0
                    ELSE MatchGenerateFieldIn(rc.template,
                            [FieldID   |-> rc.template.Fields[k].SecretTemplateFieldID,
                             FieldName |-> rc.template.Fields[k].Name])]

NextBinder == Bind /\ UNCHANGED <<resourceVars, store, lease>>

InitSpecBinder ==
    InitResource /\ InitBinder /\ store = Idle /\ lease = Idle

SpecBinder == InitSpecBinder /\ [][NextBinder]_vars

----------------------------------------------------------------------------
(* SpecRenew: Renew on any private data the host may hand back: none,      *)
(* bytes that do not deserialize, or a serialized TSSSecretsPrivateData.   *)

PrivateDatas ==
    {NoPrivate, InvalidJSON}
    \cup {MarshalPrivateData(ids, f, <<>>) :
             ids \in SeqsUpTo({Int64Value(id) : id \in SecretIDs}, MaxIDs),
             f \in {"", "password"}}

\* a lease the host holds, with the private data of its last response
Held(private) ==
    Lease("Held", [IDs |-> <<>>, Field |-> StringNull], <<>>, <<>>, NoResult, TRUE, private)

InitSpecRenew ==
    /\ InitResource
    /\ rc = Idle
    /\ store \in Stores
    /\ lease \in {Held(private) : private \in PrivateDatas}

NextRenew ==
    \/ Renew /\ UNCHANGED <<resourceVars, rc>>
    \/ Close /\ UNCHANGED <<resourceVars, rc>>

SpecRenew == InitSpecRenew /\ [][NextRenew]_vars

----------------------------------------------------------------------------
(* What the last resource operation declared, held before and submitted.   *)

\* the secrets the last operation submitted in its calls named name
Submitted(name) ==
    {calls[j].arg : j \in {i \in 1..Len(calls) : calls[i].call = name}}

\* the slugs the last operation asked the generate-value facility for
GenerateCalls ==
    {calls[j].arg : j \in {i \in 1..Len(calls) : calls[i].call = "GeneratePassword"}}

\* every declared field binds to a template field
Binds(config) ==
    \A i \in 1..Len(config.Fields) : MatchTemplateField(config.Fields[i].FieldName) # 0

\* the template field a declared name is bound to
Bound(fieldName) == Template.Fields[MatchTemplateField(fieldName)]

\* the value the durable record st holds for the template field called name
DurableValue(st, name) ==
    LET k == FirstIndex(LAMBDA f : f.FieldName = name, st.Fields)
    IN  IF k = 0 THEN "" ELSE ValueString(st.Fields[k].ItemValue)

DeclaredEmpty(v)    == ~IsNull(v) /\ ValueString(v) = ""
DeclaredExplicit(v) == ~IsNull(v) /\ ValueString(v) # ""

Succeeded == diags = NoError

----------------------------------------------------------------------------
(* Value resolution: Explicit, Preserve, Generate.                         *)

\* C1: once the durable record holds a generated value g for a
\* password-capable field, every Update that declares the field null or
\* empty submits g for it and leaves g in the durable record, and every
\* Read leaves g in the durable record.
C1_GeneratedValueSurvives ==
    /\ (op.kind = "Update" /\ Binds(op.config)) =>
          \A i \in 1..Len(op.config.Fields) :
             LET decl == op.config.Fields[i]
                 tf   == Bound(decl.FieldName)
                 g    == DurableValue(op.prior, tf.Name)
             IN  (tf.IsPassword /\ g \in GeneratedValues
                  /\ (IsNull(decl.ItemValue) \/ DeclaredEmpty(decl.ItemValue)))
                 => /\ Submitted("UpdateSecret") # {}
                    /\ \A sent \in Submitted("UpdateSecret") : sent.Fields[i].ItemValue = g
                    /\ DurableValue(state, tf.Name) = g
    /\ op.kind = "Read" =>
          \A k \in 1..Len(Template.Fields) :
             LET tf == Template.Fields[k]
                 g  == DurableValue(op.prior, tf.Name)
             IN  (tf.IsPassword /\ g \in GeneratedValues)
                 => DurableValue(state, tf.Name) = g

\* C2: on Update, a field declared with the explicit empty string while
\* the durable record holds a non-empty value for it is submitted as "".
C2_ExplicitEmptySuppressesPreserve ==
    (op.kind = "Update" /\ Binds(op.config)) =>
       \A i \in 1..Len(op.config.Fields) :
          LET decl == op.config.Fields[i]
              tf   == Bound(decl.FieldName)
          IN  (DeclaredEmpty(decl.ItemValue) /\ DurableValue(op.prior, tf.Name) # "")
              => \A sent \in Submitted("UpdateSecret") : sent.Fields[i].ItemValue = ""

\* C3: on Create, a password-capable field declared with the explicit
\* empty string is submitted as "" and no generate-value call is made for
\* it.
C3_ExplicitEmptySuppressesGenerate ==
    (op.kind = "Create" /\ Binds(op.config)) =>
       \A i \in 1..Len(op.config.Fields) :
          LET decl == op.config.Fields[i]
              tf   == Bound(decl.FieldName)
          IN  (tf.IsPassword /\ DeclaredEmpty(decl.ItemValue))
              => /\ tf.FieldSlugName \notin GenerateCalls
                 /\ \A sent \in Submitted("CreateSecret") : sent.Fields[i].ItemValue = ""

\* C4: on Update, a field declared null while the durable record holds a
\* non-empty value p for it is submitted as p.
C4_NullPreservesPrior ==
    (op.kind = "Update" /\ Binds(op.config)) =>
       \A i \in 1..Len(op.config.Fields) :
          LET decl == op.config.Fields[i]
              tf   == Bound(decl.FieldName)
              p    == DurableValue(op.prior, tf.Name)
          IN  (IsNull(decl.ItemValue) /\ p # "")
              => \A sent \in Submitted("UpdateSecret") : sent.Fields[i].ItemValue = p

\* C5: a Create that succeeds has, for each field declared null and bound
\* to a password-capable template field, called the generate-value
\* facility with that template field's slug, submitted the generated value
\* for the field in the create call, and stored that value in the durable
\* record.
C5_CreateGenerates ==
    (op.kind = "Create" /\ Succeeded) =>
       \A i \in 1..Len(op.config.Fields) :
          LET decl == op.config.Fields[i]
              tf   == Bound(decl.FieldName)
          IN  (tf.IsPassword /\ IsNull(decl.ItemValue))
              => /\ tf.FieldSlugName \in GenerateCalls
                 /\ Submitted("CreateSecret") # {}
                 /\ \A sent \in Submitted("CreateSecret") :
                       /\ sent.Fields[i].ItemValue \in GeneratedValues
                       /\ DurableValue(state, tf.Name) = sent.Fields[i].ItemValue

\* a Create has succeeded on a null password field: the value was generated
C5_Witness ==
    /\ op.kind = "Create" /\ Succeeded
    /\ \E i \in 1..Len(op.config.Fields) :
          /\ Bound(op.config.Fields[i].FieldName).IsPassword
          /\ IsNull(op.config.Fields[i].ItemValue)
          /\ DurableValue(state, "Password") \in GeneratedValues

\* C6: in Create and in Update, a field declared with a non-empty value v
\* is submitted as v.
C6_ExplicitWins ==
    (op.kind \in {"Create", "Update"} /\ Binds(op.config)) =>
       \A i \in 1..Len(op.config.Fields) :
          LET decl == op.config.Fields[i]
          IN  DeclaredExplicit(decl.ItemValue)
              => \A sent \in Submitted("CreateSecret") \cup Submitted("UpdateSecret") :
                    sent.Fields[i].ItemValue = ValueString(decl.ItemValue)

----------------------------------------------------------------------------
(* The field reconciler.                                                   *)

\* every name in D has an entry of that very name in R
EveryPlanNameInRemote ==
    \A i \in 1..Len(rc.D) : \E j \in 1..Len(rc.R) : rc.R[j].FieldName = rc.D[i].FieldName

\* every name in D has an entry in R of that name, ignoring case
EveryPlanNameMatched ==
    \A i \in 1..Len(rc.D) :
        \E j \in 1..Len(rc.R) : EqualFold(rc.R[j].FieldName, rc.D[i].FieldName)

\* no two entries of R have the same name, ignoring case
RemoteNamesDistinct ==
    \A i, j \in 1..Len(rc.R) :
        EqualFold(rc.R[i].FieldName, rc.R[j].FieldName) => i = j

\* the entries of list no name in D matches, in the order of list
Unmatched(list) ==
    SelectSeq(list, LAMBDA f : \A i \in 1..Len(rc.D) :
                                   ~EqualFold(f.FieldName, rc.D[i].FieldName))

\* out follows D's order and holds R's entries, and only those
InPlanOrder(out) ==
    /\ Len(out) = Len(rc.D)
    /\ \A i \in 1..Len(rc.D) :
          /\ EqualFold(out[i].FieldName, rc.D[i].FieldName)
          /\ out[i] \in Range(rc.R)

C8_Idempotent ==
    rc.phase = "done" => rc.again = rc.out

\* a run that reordered R, dropped a plan name and appended an extra entry
C8_Witness ==
    /\ rc.phase = "done"
    /\ rc.out # rc.R
    /\ Len(rc.out) > Len(rc.D)
    /\ Unmatched(rc.R) # <<>>
    /\ rc.again = rc.out

----------------------------------------------------------------------------
(* The ephemeral lease.                                                    *)

\* the ids the last lease operation set out to fetch
RequestedIDs ==
    IF lease.kind = "Open"
    THEN [i \in 1..Len(lease.config.IDs) |-> ValueInt64(lease.config.IDs[i])]
    ELSE lease.fetched

\* the field name the last lease operation asked for
RequestedField == ValueString(lease.config.Field)

FetchFails(id)  == store[id] = Unreachable
LacksField(id)  == store[id] # Unreachable /\ ~HasField(store[id], RequestedField)
Carries(id)     == store[id] # Unreachable /\ HasField(store[id], RequestedField)

Warnings == SelectSeq(lease.diags, LAMBDA d : d.severity = "warning")
Errors   == SelectSeq(lease.diags, LAMBDA d : d.severity = "error")

\* C9: an Open that runs its loop fetches every requested id in order;
\* each fetch that fails leaves exactly one warning naming its id and no
\* fatal error, and its id is not in the result set; the result set holds
\* exactly the values of the ids whose fetch succeeded and that carry the
\* field, in the order requested.
C9_FetchFailureIsSkipped ==
    (lease # Closed /\ lease.kind = "Open" /\ lease.result # NoResult) =>
        /\ lease.fetched = RequestedIDs
        /\ [i \in 1..Len(Warnings) |-> Warnings[i].id]
              = SelectSeq(RequestedIDs, FetchFails)
        /\ Len(Errors) = Len(SelectSeq(RequestedIDs, LacksField))
        /\ \A i \in 1..Len(lease.result.Secrets) :
              ~FetchFails(ValueInt64(lease.result.Secrets[i].ID))
        /\ LET carried == SelectSeq(RequestedIDs, Carries)
           IN  lease.result.Secrets
                  = [i \in 1..Len(carried) |->
                        [ID    |-> Int64Value(carried[i]),
                         Value |-> StringValue(Field(store[carried[i]], RequestedField))]]

\* Open of ids 1 and 2, the fetch of id 2 failing: one warning, no error,
\* the result set holds id 1's value only
C9_Witness ==
    /\ lease # Closed /\ lease.kind = "Open"
    /\ RequestedIDs = <<1, 2>>
    /\ FetchFails(2) /\ Carries(1)
    /\ Len(Warnings) = 1 /\ Warnings[1].id = 2
    /\ Errors = <<>>
    /\ Len(lease.result.Secrets) = 1
    /\ lease.result.Secrets[1].ID = Int64Value(1)

\* C10: an Open or Renew that fetches a secret lacking the requested field
\* ends in a fatal error and delivers no result set, no renewal deadline and
\* no carry-state.
C10_MissingFieldIsFatalForBatch ==
    (lease # Closed /\ \E i \in 1..Len(lease.fetched) : LacksField(lease.fetched[i])) =>
        /\ Errors # <<>>
        /\ lease.result = NoResult
        /\ ~lease.renewAt
        /\ lease.private = NoPrivate

\* C11: the carry-state Open and Renew emit holds the requested ids and
\* the field name and nothing else: it is the carry-state of those ids and
\* that field name without any fetched secret, whatever the store answered.
C11_CarryStateOnlyIdsAndField ==
    (lease # Closed /\ lease.private # NoPrivate) =>
        lease.private = MarshalPrivateData(lease.config.IDs,
                                           ValueString(lease.config.Field), <<>>)

\* C12: a Renew that runs its loop fetches the ids a fresh Open of the same
\* ids and field name would fetch, in the same order, and ends with the
\* same warnings and errors and the same extracted results.
C12_RenewReproducesOpen ==
    (lease # Closed /\ lease.kind = "Renew" /\ lease.private # NoPrivate) =>
        LET fresh == fetchSecrets(lease.config.IDs, ValueString(lease.config.Field),
                                  1, NoResults)
        IN  /\ lease.fetched = fresh.fetched
            /\ lease.diags = fresh.diags
            /\ lease.private = MarshalPrivateData(lease.config.IDs,
                                                  ValueString(lease.config.Field),
                                                  fresh.results)

\* the private data is absent, does not deserialize, or deserializes to an
\* empty id list or an empty field name
BadPrivateData(private) ==
    \/ private = NoPrivate
    \/ private = InvalidJSON
    \/ Len(private.IDs) = 0
    \/ private.field = ""

\* C13: a Renew on private data that is absent, does not deserialize, or
\* has an empty id list or an empty field name ends in a fatal error, has
\* fetched nothing, and emits neither private data nor a deadline.
C13_RenewNeedsCarryState ==
    [][(lease # Closed /\ lease' # Closed /\ lease'.kind = "Renew"
        /\ BadPrivateData(lease.private))
       => /\ HasError(lease'.diags)
          /\ lease'.fetched = <<>>
          /\ lease'.private = NoPrivate
          /\ ~lease'.renewAt]_vars

\* a Renew has refused private data with ids but an empty field name
C13_Witness ==
    /\ lease # Closed /\ lease.kind = "Renew"
    /\ lease.diags = <<Fatal("Missing Private Data Fields")>>
    /\ lease.fetched = <<>> /\ lease.private = NoPrivate /\ ~lease.renewAt

\* binder helpers: the template fields that match the declared field of a
\* binder run by id, by name, by slug
IdMatches ==
    {k \in 1..Len(rc.template.Fields) :
        /\ ~IsNull(rc.field.FieldID) /\ ValueInt64(rc.field.FieldID) # 0
        /\ rc.template.Fields[k].SecretTemplateFieldID = ValueInt64(rc.field.FieldID)}
NameMatches ==
    {k \in 1..Len(rc.template.Fields) :
        EqualFold(rc.template.Fields[k].Name, rc.field.FieldName)}
SlugMatches ==
    {k \in 1..Len(rc.template.Fields) :
        EqualFold(rc.template.Fields[k].FieldSlugName, rc.field.FieldName)}

\* C14: the binder goes by id, then by name, then by slug: a declared field
\* with a non-zero id that a template field has is bound to that template
\* field; without an id match, a declared field some template field matches
\* by name is bound to a template field of that name; a slug match is taken
\* only when there is neither.
C14_BindsByIdThenNameThenSlug ==
    rc.phase = "bound" =>
        /\ IdMatches # {} => rc.prepared \in IdMatches
        /\ (IdMatches = {} /\ NameMatches # {}) => rc.prepared \in NameMatches
        /\ (IdMatches = {} /\ NameMatches = {} /\ SlugMatches # {})
               => rc.prepared \in SlugMatches

\* C15: when two or more template fields share the name of a declared field
\* that carries no id, the binder binds the declared field to the first of
\* them in the template's order, and a second lookup binds it the same.
C15_FirstOfSharedName ==
    (rc.phase = "bound" /\ IsNull(rc.field.FieldID) /\ Cardinality(NameMatches) >= 2) =>
        /\ rc.prepared \in NameMatches
        /\ \A j \in NameMatches : rc.prepared <= j
        /\ rc.again = rc.prepared

\* the identifier strings in use that are not the decimal form of an integer
NotAnInteger(s) == s \in {"x"}

\* the folder, site and template identifiers of a declaration parse
IdentifiersParse(config) ==
    ~NotAnInteger(config.FolderID) /\ ~NotAnInteger(config.SiteID)
    /\ ~NotAnInteger(config.SecretTemplateID)

\* whether an error text names the field called fieldName
NamesField(text, fieldName) ==
    fieldName = "Bogus" /\ text = "field 'Bogus' not found in secret template"

\* the first declared field that binds to no template field
FirstUnbound(config) ==
    config.Fields[FirstIndex(LAMBDA f : MatchTemplateField(f.FieldName) = 0,
                             config.Fields)]

\* the names of the remote calls the last operation issued
CallNames == {calls[i].call : i \in 1..Len(calls)}

\* C16: a Create or Update whose declaration (identifiers parsing, template
\* fetched) has a field that binds to no template field ends with the error
\* that names the first such field; it has issued no generate-value, create
\* or update call, and the durable record is what it was before (none, for
\* Create).
C16_UnboundFieldAborts ==
    (op.kind \in {"Create", "Update"} /\ IdentifiersParse(op.config) /\ ~Binds(op.config)) =>
        /\ diags.error = "Secret Data Error"
        /\ NamesField(diags.detail, FirstUnbound(op.config).FieldName)
        /\ CallNames \cap {"GeneratePassword", "CreateSecret", "UpdateSecret"} = {}
        /\ state = op.prior

\* an Update of an existing record has been refused for an unbound field
C16_Witness ==
    /\ op.kind = "Update" /\ ~Binds(op.config) /\ state # NoState
    /\ diags.error = "Secret Data Error" /\ NamesField(diags.detail, "Bogus")
    /\ CallNames = {"SecretTemplate"}

\* the error getSecretData gives for the first identifier that does not parse
InvalidIdentifier(config) ==
    IF NotAnInteger(config.FolderID) THEN "invalid Folder ID"
    ELSE IF NotAnInteger(config.SiteID) THEN "invalid Site ID"
    ELSE "invalid Template ID"

\* C17: a Create or Update whose declared folder, site or template id does
\* not parse as an integer ends with the error naming that attribute, has
\* issued no remote call at all, and leaves the durable record as it was.
C17_UnparsableIdentifierAborts ==
    (op.kind \in {"Create", "Update"} /\ ~IdentifiersParse(op.config)) =>
        /\ diags = Error("Secret Data Error", InvalidIdentifier(op.config))
        /\ calls = <<>>
        /\ state = op.prior

\* an Update of an existing record has been refused for its site id
C17_Witness ==
    /\ op.kind = "Update" /\ NotAnInteger(op.config.SiteID) /\ state # NoState
    /\ diags = Error("Secret Data Error", "invalid Site ID")
    /\ calls = <<>>

\* the last operation reached the remote call that fails during it
FaultStruck == op.fail # "none" /\ op.fail \in CallNames

\* C18: a Create, Read or Update in which binding, coercion, generation or
\* a remote call (template fetch, generate, create, update, read) fails ends
\* with an error, and every such operation that ends with an error leaves
\* the durable record exactly as it was before the operation.
C18_FailureWritesNothing ==
    op.kind \in {"Create", "Read", "Update"} =>
        /\ (FaultStruck
            \/ (op.kind # "Read" /\ (~IdentifiersParse(op.config) \/ ~Binds(op.config))))
              => diags.error # ""
        /\ diags.error # "" => state = op.prior

\* an Update has failed at the read-back after the remote update went
\* through, and the durable record is the prior one
C18_Witness ==
    /\ op.kind = "Update" /\ op.fail = "Secret"
    /\ CallNames = {"SecretTemplate", "UpdateSecret", "Secret"}
    /\ diags.error = "Secret Retrieval Error"
    /\ state = op.prior /\ state # NoState

C20_UpdateSendsNoIntent ==
    op.kind = "Update" =>
        /\ \A sent \in Submitted("UpdateSecret") : sent.SshKeyArgs = NoArgs
        /\ "GeneratePassword" \notin CallNames

\* an Update whose declaration and prior record both ask for generated keys
\* and passphrase has submitted its secret
C20_Witness ==
    /\ op.kind = "Update" /\ diags = NoError
    /\ op.config.SshKeyArgs = SshKeyArgs(TRUE, TRUE)
    /\ op.prior.SshKeyArgs = SshKeyArgs(TRUE, TRUE)
    /\ Submitted("UpdateSecret") # {}

\* C21: the SSH key arguments of the durable record are those of the
\* declaration after a successful Create, are unchanged by a successful
\* Read, and are unchanged by a successful Update whose declaration carries
\* the arguments the prior record holds.
C21_IntentSurvives ==
    Succeeded =>
        /\ op.kind = "Create" => state.SshKeyArgs = op.config.SshKeyArgs
        /\ op.kind = "Read" => state.SshKeyArgs = op.prior.SshKeyArgs
        /\ (op.kind = "Update" /\ op.config.SshKeyArgs = op.prior.SshKeyArgs)
               => state.SshKeyArgs = op.prior.SshKeyArgs

\* a Read has kept the arguments to generate keys and passphrase that the
\* prior record held
C21_Witness ==
    /\ op.kind = "Read" /\ Succeeded
    /\ op.prior.SshKeyArgs = SshKeyArgs(TRUE, TRUE)
    /\ state.SshKeyArgs = SshKeyArgs(TRUE, TRUE)
    /\ remote.SshKeyArgs = NoArgs

\* C22: a successful Read leaves the durable record exactly as it found it,
\* in whatever order the remote store returned the fields.
C22_ReadIsNoDrift ==
    (op.kind = "Read" /\ Succeeded) => state = op.prior

\* C23: the output of a reconciler run ends with the entries of R that no
\* name in D matches, all of them and in R's order, and everything before
\* them is matched by a name in D.
C23_UnmatchedAppendedInRemoteOrder ==
    rc.phase = "done" =>
        LET extras == Unmatched(rc.R)
            k      == Len(rc.out) - Len(extras)
        IN  /\ k >= 0
            /\ SubSeq(rc.out, k + 1, Len(rc.out)) = extras
            /\ Unmatched(SubSeq(rc.out, 1, k)) = <<>>

\* the declared fields of the last operation that have no entry of their
\* name, ignoring case, among the fields the remote store holds
AbsentFromRemote ==
    {i \in 1..Len(op.config.Fields) :
        \A j \in 1..Len(remote.Fields) :
            ~EqualFold(remote.Fields[j].FieldName, op.config.Fields[i].FieldName)}

\* the declaration names the template the remote store has
TemplateExists(config) == config.SecretTemplateID = Itoa(Template.ID)

ActiveIntent(r) ==
    /\ r.SshKeyArgs # NoArgs
    /\ (ValueBool(r.SshKeyArgs.GenerateSshKeys) \/ ValueBool(r.SshKeyArgs.GeneratePassphrase))

\* the field is file-bearing, or named for a key or passphrase under an
\* active intent
AttachmentFromPrior(f, intent) ==
    \/ ValueBool(f.IsFile)
    \/ intent /\ ToLower(f.FieldName) \in {"private key", "private-key", "passphrase"}

\* field f has the attachment id and filename of the prior field g
SameAttachment(f, g) ==
    f.FileAttachmentID = g.FileAttachmentID /\ f.Filename = g.Filename

\* C25: in the record a successful Create writes, a file-bearing or key
\* field has the attachment id and filename the declaration gives for the
\* declared field of its name (ignoring case); in the record a successful
\* Read or Update writes, it has those of the prior record's field of its
\* name (ignoring case).
C25_AttachmentFromPriorState ==
    Succeeded =>
        /\ op.kind = "Create" =>
              \A j \in 1..Len(state.Fields) : \A i \in 1..Len(op.config.Fields) :
                  (/\ AttachmentFromPrior(state.Fields[j], ActiveIntent(op.config))
                   /\ EqualFold(op.config.Fields[i].FieldName, state.Fields[j].FieldName)
                   /\ ~IsNull(op.config.Fields[i].FileAttachmentID))
                      => SameAttachment(state.Fields[j], op.config.Fields[i])
        /\ op.kind \in {"Read", "Update"} =>
              \A j \in 1..Len(state.Fields) : \A i \in 1..Len(op.prior.Fields) :
                  (/\ AttachmentFromPrior(state.Fields[j], ActiveIntent(op.prior))
                   /\ EqualFold(op.prior.Fields[i].FieldName, state.Fields[j].FieldName))
                      => SameAttachment(state.Fields[j], op.prior.Fields[i])

\* C26: an operation on a durable record whose id is no integer ends with
\* an error; a Delete or Read of it issues no remote call at all, and an
\* Update of it issues no update call.
C26_UnparsableDurableIdAborts ==
    (op.kind \in {"Read", "Update", "Delete"} /\ NotAnInteger(op.prior.ID)) =>
        /\ diags.error # ""
        /\ op.kind \in {"Read", "Delete"} => calls = <<>>
        /\ "UpdateSecret" \notin CallNames
        /\ state = op.prior

\* the identifier strings in use that denote a negative integer
Negative(s) == s \in {"-2"}

\* C27: a Create or Update whose declared folder, site or template id is a
\* negative integer ends with a coercion error, has issued no remote call,
\* and leaves the durable record as it was.
C27_NegativeIdentifierRejected ==
    (/\ op.kind \in {"Create", "Update"}
     /\ (Negative(op.config.FolderID) \/ Negative(op.config.SiteID)
         \/ Negative(op.config.SecretTemplateID))) =>
        /\ diags.error = "Secret Data Error"
        /\ diags.detail \in {"invalid Folder ID", "invalid Site ID", "invalid Template ID"}
        /\ calls = <<>>
        /\ state = op.prior

\* the positions of the calls of one kind in a call log
CallsOf(log, name) == {i \in 1..Len(log) : log[i].call = name}

\* the call by which an operation of the kind changes the remote store
MutatingCall(kind) == IF kind = "Create" THEN "CreateSecret" ELSE "UpdateSecret"

\* C28: in every Create and Update the template and generate-value calls of
\* resolving and binding come before the one create or update call, the one
\* read-back comes after it and is the last call, and the durable record is
\* written only after both went through; the remote store changes only by
\* the create or update call, and an operation that ends with an error
\* leaves the durable record as it was, so the only mismatch it can leave
\* is a remote store changed without the durable record being written.
C28_BindMutateReadBackWrite ==
    [][(op = Idle /\ op'.kind \in {"Create", "Update"}) =>
          LET log == calls'
              M == CallsOf(log, MutatingCall(op'.kind))
              S == CallsOf(log, "Secret")
              B == CallsOf(log, "SecretTemplate") \cup CallsOf(log, "GeneratePassword")
          IN  /\ M \cup S \cup B = 1..Len(log)
              /\ Cardinality(M) <= 1 /\ Cardinality(S) <= 1
              /\ \A m \in M : \A b \in B : b < m
              /\ \A s \in S : s = Len(log) /\ \E m \in M : m < s
              /\ remote' # remote => M # {} /\ op'.fail # MutatingCall(op'.kind)
              /\ diags' = NoError =>
                     /\ M # {} /\ S # {}
                     /\ op'.fail \notin {MutatingCall(op'.kind), "Secret"}
                     /\ remote' # NoSecret /\ state' # NoState
                     /\ remote'.ID = Atoi(state'.ID)
                     /\ \A m \in M : op'.kind = "Update" => remote'.ID = log[m].arg.ID
              /\ diags' # NoError => state' = state]_vars

\* a Create has failed at the read-back: the secret exists in the remote
\* store and no durable record has been written
C28_Witness ==
    /\ op.kind = "Create" /\ op.fail = "Secret"
    /\ CallsOf(calls, "CreateSecret") # {} /\ CallsOf(calls, "Secret") # {}
    /\ diags.error = "Secret Retrieval Error"
    /\ remote # NoSecret /\ state = NoState

\* how many times x occurs in list
Occurrences(list, x) == Cardinality({i \in 1..Len(list) : list[i] = x})

\* C29: the output of the reconciler holds every field of the remote list
\* exactly as many times as the remote list does, and nothing else.
C29_OutputIsPermutationOfRemote ==
    rc.phase = "done" =>
        \A x \in Range(rc.R) \cup Range(rc.out) :
            Occurrences(rc.out, x) = Occurrences(rc.R, x)

\* the ids given to the Open of the lease, as integers
OpenedIDs == [i \in 1..Len(lease.config.IDs) |-> ValueInt64(lease.config.IDs[i])]

\* C30: the carry-state a lease holds after Open and after every Renew
\* deserializes to the ids and the field name given to Open, and every
\* Renew that runs its loop fetches exactly those ids in that order.
C30_CarryStateKeepsIdsAndField ==
    (lease # Closed /\ lease.private # NoPrivate) =>
        /\ UnmarshalPrivateData(lease.private).IDs = lease.config.IDs
        /\ UnmarshalPrivateData(lease.private).Field = ValueString(lease.config.Field)
        /\ lease.kind = "Renew" => lease.fetched = OpenedIDs

====
